---- MODULE Spec2Model ----
(***************************************************************************)
(* Model of the photovoltaic sizing-and-selection engine of 4zzuf/prime:   *)
(* the catalog reader (leer_datos) and the kit optimizer (calcular_kit) of *)
(* Precios.py, driven once by Precios.main and repeatedly by the           *)
(* "Ejecutar simulacion" handler of Ahorros.main; the load aggregation,    *)
(* sizing and amortization functions; the sale of a kit against the stock  *)
(* (vender_sistema of Ahorros.main), the inventory dialog                  *)
(* (mostrar_inventario of Ahorros.main) and the stock movements of         *)
(* gradordeinventario.py.                                                  *)
(*                                                                         *)
(* Numbers: the code computes on Python floats.  The model uses integers   *)
(* for the catalog and the sizing inputs and exact fractions <<n, d>> for  *)
(* every intermediate quotient, so ceil() is taken of the exact value.     *)
(* Text: a description is a sequence of one-character strings, built the   *)
(* way the f-strings of the code build it.                                 *)
(***************************************************************************)
EXTENDS Integers, Sequences, FiniteSets, TLC

VARIABLES
    datos,             \* catalog: [hoja -> [categoria -> Seq(entry)]]
    pc,                \* "leer": reading rows; "listo": catalog loaded; "calculado"
    potencia_panel,    \* arguments of the last call of calcular_kit
    capacidad_bateria,
    demanda_maxima,
    resultados,        \* kit returned by the last call, Nada if none or it raised
    excepcion,         \* "ninguna", or the exception the last call raised
    elegido,           \* locals of the winning iteration, per tier and family
    anterior,          \* an earlier call kept for comparison: inputs and outcome
    cargas,            \* load list: Seq of dicts aparato, cantidad, carga, horas_*
    curva,             \* irradiance curve: hour -> W/m2
    energia,           \* <<energia_dia, energia_noche>> last returned, Nada if none
    necesidades,       \* <<potencia_panel, capacidad_bateria>> last returned
    demanda,           \* <<demanda maxima>> last returned by potencia_maxima_demanda
    amortizacion,      \* [costo_sistema, costo_kwh, payback, ahorro_total] last returned
    inventario,        \* stock: producto -> cantidad (Ahorros), or categoria ->
                       \* producto -> cantidad (gradordeinventario); in the
                       \* inventory dialog the pairs <<producto, cantidad>> in
                       \* the dict's order
    archivo,           \* the inventory as last saved to the inventory file
    movimientos,       \* the ledger: Seq of movements
    historia,          \* the stock before the last operation and the sums moved
    table              \* the rows of the open inventory dialog, Nada when closed

\* State of the kit selection
seleccion == <<datos, pc, potencia_panel, capacidad_bateria, demanda_maxima,
               resultados, excepcion, elegido, anterior>>

\* State of the load aggregation, sizing and amortization
motor == <<cargas, curva, energia, necesidades, demanda, amortizacion>>

\* State of the stock and the ledger
almacen == <<inventario, archivo, movimientos, historia, table>>

vars == <<seleccion, motor, almacen>>

----------------------------------------------------------------------------
(* Constants of Precios.py *)

SHEETS == <<"Paneles", "Inversores", "Baterias", "Controladores">>

CATEGORIES == <<"Barato", "Intermedio", "Premium">>

Hojas == {SHEETS[i] : i \in 1..Len(SHEETS)}

Categorias == {CATEGORIES[i] : i \in 1..Len(CATEGORIES)}

----------------------------------------------------------------------------
(* Bounds and input sets *)

MaxFilas == 2

\* Product names (marca + detalle), as character sequences.
P1 == <<"P", "1">>
P2 == <<"P", "2">>
P3 == <<"P", "3">>
I1 == <<"I", "1">>
I2 == <<"I", "2">>
B1 == <<"B", "1">>
B2 == <<"B", "2">>
B3 == <<"B", "3">>
B4 == <<"B", "4">>
B5 == <<"B", "5">>
K1 == <<"K", "1">>
K2 == <<"K", "2">>

\* The description of a family with no eligible entry: "Sin datos".
SinDatos == <<"S", "i", "n", " ", "d", "a", "t", "o", "s">>

\* <<nombre, capacidad (W), precio>>; P3 has no capacity.
ModelosPaneles == {<<P1, 50, 60>>, <<P2, 100, 100>>, <<P3, 0, 10>>}

\* <<nombre, capacidad (W), precio>>
ModelosInversores == {<<I1, 500, 150>>, <<I2, 1000, 200>>}

\* <<nombre, capacidad (Ah), voltaje, precio>>; B4 has voltage 0, B5 has
\* neither capacity nor voltage.
ModelosBaterias ==
    {<<B1, 40, 12, 40>>, <<B2, 60, 12, 55>>, <<B3, 100, 24, 90>>,
     <<B4, 40, 0, 40>>, <<B5, 0, 0, 30>>}

\* <<nombre, capacidad (A), precio>>; the last one is a free product whose
\* marca and detalle read "Sin" and "datos".
ModelosControladores == {<<K1, 10, 30>>, <<K2, 20, 45>>, <<SinDatos, 0, 0>>}

\* A spreadsheet row after the parsing of leer_datos: the sheet, the
\* Categoria cell and the tuple leer_datos builds from the other cells.
Fila(h, c, t) == [hoja |-> h, categoria |-> c, tupla |-> t]

Filas ==
    {Fila("Paneles", c, t) : c \in Categorias, t \in ModelosPaneles}
    \cup {Fila("Inversores", c, t) : c \in Categorias, t \in ModelosInversores}
    \cup {Fila("Baterias", c, t) : c \in Categorias, t \in ModelosBaterias}
    \cup {Fila("Controladores", c, t) : c \in Categorias, t \in ModelosControladores}
    \cup {Fila("Paneles", "Otro", <<P1, 50, 60>>)}

PotenciasPanel == {0, 48, 250, 1500, 1501, 5001}

CapacidadesBateria == {0, 100}

DemandasMaximas == {400, 600}

----------------------------------------------------------------------------
(* Arithmetic *)

\* Exact fractions <<n, d>>, d > 0.
Frac(n) == <<n, 1>>

FracMul(a, b) == <<a[1] * b[1], a[2] * b[2]>>

\* a / b for b > 0
FracDiv(a, b) == <<a[1] * b[2], a[2] * b[1]>>

FracEsCero(a) == a[1] = 0

\* math.ceil of a fraction
Ceil(a) == -((-a[1]) \div a[2])

\* math.inf and the finite floats
Inf == [inf |-> TRUE, v |-> 0]

Fin(x) == [inf |-> FALSE, v |-> x]

\* Variant: an equal total also replaces the best so far
MenorOIgual(total, mejor) == mejor.inf \/ total <= mejor.v

\* total < mejor, for a finite total
MenorQue(total, mejor) == mejor.inf \/ total < mejor.v

\* mejor if mejor < math.inf else 0.0
PrecioFinal(mejor) == IF mejor.inf THEN 0 ELSE mejor.v

----------------------------------------------------------------------------
(* Text *)

Digito(d) == <<"0", "1", "2", "3", "4", "5", "6", "7", "8", "9">>[d + 1]

\* str() of a non-negative int, as an f-string formats it
RECURSIVE Dec(_)
Dec(n) == IF n < 10 THEN <<Digito(n)>> ELSE Dec(n \div 10) \o <<Digito(n % 10)>>

\* f"{cantidad} x {nombre}"
DescPanel(cantidad, nombre) == Dec(cantidad) \o <<" ", "x", " ">> \o nombre

\* f"{total_bat} x {nombre} ({en_serie}S{en_paralelo}P)"
DescBateria(total_bat, nombre, en_serie, en_paralelo) ==
    Dec(total_bat) \o <<" ", "x", " ">> \o nombre \o <<" ", "(">>
    \o Dec(en_serie) \o <<"S">> \o Dec(en_paralelo) \o <<"P", ")">>

----------------------------------------------------------------------------
(* leer_datos *)

\* datos[hoja] = {cat: [] for cat in CATEGORIES}, for every sheet
DatosVacios == [h \in Hojas |-> [c \in Categorias |-> <<>>]]

\* One row of a sheet: appended to its tier's list when the Categoria cell
\* names a tier, skipped otherwise.
AgregarFila(d, f) ==
    IF f.categoria \in Categorias
    THEN [d EXCEPT ![f.hoja][f.categoria] = Append(@, f.tupla)]
    ELSE d

\* The whole of leer_datos on the rows of a file, in order
RECURSIVE LeerDatos(_)
LeerDatos(filas) ==
    IF filas = <<>> THEN DatosVacios
    ELSE AgregarFila(LeerDatos(SubSeq(filas, 1, Len(filas) - 1)), filas[Len(filas)])

RECURSIVE SumaLargos(_, _)
SumaLargos(d, pares) ==
    IF pares = {} THEN 0
    ELSE LET p == CHOOSE q \in pares : TRUE
         IN Len(d[p[1]][p[2]]) + SumaLargos(d, pares \ {p})

\* Number of rows the catalog holds
TotalFilas(d) == SumaLargos(d, Hojas \X Categorias)

----------------------------------------------------------------------------
(* calcular_kit *)

\* The value of resultados before any kit was returned
Nada == <<>>

\* Variant: the thresholds taken as strict (<)
VoltSistemaEstricto(pw) == IF pw < 1500 THEN 12 ELSE IF pw < 5000 THEN 24 ELSE 48

\* if potencia_panel <= 1500: 12; elif potencia_panel <= 5000: 24; else: 48
VoltSistema(pw) == IF pw <= 1500 THEN 12 ELSE IF pw <= 5000 THEN 24 ELSE 48

\* energia_noche_kwh = capacidad_bateria * 12 / 1000
EnergiaNocheKwh(cb) == FracDiv(FracMul(Frac(cb), Frac(12)), Frac(1000))

\* Variant: the whole capacity counted as usable in every tier
DodCompleto(categoria) == <<1, 1>>

\* dod = 0.5 if categoria in ("Barato", "Intermedio") else 0.9
Dod(categoria) ==
    IF categoria \in {"Barato", "Intermedio"} THEN <<1, 2>> ELSE <<9, 10>>

\* ah_sistema = energia_noche_kwh * 1000 / volt_sistema
\* capacidad_requerida = ah_sistema / dod if dod else ah_sistema
CapacidadRequerida(cb, vs, categoria) ==
    LET ah_sistema == FracDiv(FracMul(EnergiaNocheKwh(cb), Frac(1000)), Frac(vs))
        dod == Dod(categoria)
    IN  IF ~FracEsCero(dod) THEN FracDiv(ah_sistema, dod) ELSE ah_sistema

\* Variant: the quotient rounded down
CantidadPanelesPiso(pw, capacidad) == pw \div capacidad

\* cantidad = math.ceil(potencia_panel / capacidad)
CantidadPaneles(pw, capacidad) == Ceil(FracDiv(Frac(pw), Frac(capacidad)))

\* en_serie = int(volt_sistema / volt), for a voltage that divides
EnSerie(vs, volt) == vs \div volt

\* Variant: the quotient rounded down
EnParaleloPiso(requerida, capacidad) ==
    (requerida[1]) \div (requerida[2] * capacidad)

\* en_paralelo = math.ceil(capacidad_requerida / capacidad)
EnParalelo(requerida, capacidad) == Ceil(FracDiv(requerida, Frac(capacidad)))

\* `volt_sistema % volt` is evaluated, and raises, when the capacity test
\* before it in the `or` is false and the voltage is 0.
ModuloPorCero(capacidad, volt) == capacidad > 0 /\ volt = 0

\* Variant: the voltage test left out
BateriaSinCapacidad(capacidad, volt, vs) == capacidad <= 0

\* if capacidad <= 0 or volt_sistema % volt != 0: continue
BateriaDescartada(capacidad, volt, vs) == capacidad <= 0 \/ vs % volt # 0

\* Variant: the capacity test left out
InversorCualquiera(capacidad, dm) == TRUE

\* capacidad >= demanda_maxima
InversorSuficiente(capacidad, dm) == capacidad >= dm

\* Variant: the best so far kept from the previous call
MejorHeredado(categoria, hoja) ==
    IF resultados # Nada THEN Fin(resultados[categoria][hoja][2]) ELSE Inf

\* mejor_total = math.inf (mejor_precio = math.inf), set anew before every
\* family of every tier
MejorInicial(categoria, hoja) == Inf

\* The locals of a selection loop: the best total (or price) and description
\* so far, and of the iteration that set them the index and the counts.
Seleccion(mejor, desc, idx, cantidad, serie) ==
    [mejor |-> mejor, desc |-> desc, idx |-> idx, cantidad |-> cantidad,
     serie |-> serie, error |-> FALSE]

SeleccionInicial(categoria, hoja) ==
    Seleccion(MejorInicial(categoria, hoja), SinDatos, 0, 0, 0)

\* for nombre, capacidad, precio in datos["Paneles"].get(categoria, [])
RECURSIVE BuclePaneles(_, _, _, _)
BuclePaneles(lista, i, pw, sel) ==
    IF i > Len(lista) THEN sel
    ELSE LET nombre == lista[i][1]
             capacidad == lista[i][2]
             precio == lista[i][3]
         IN  IF capacidad <= 0 THEN BuclePaneles(lista, i + 1, pw, sel)
             ELSE LET cantidad == CantidadPaneles(pw, capacidad)
                      total == cantidad * precio
                  IN  IF MenorQue(total, sel.mejor)
                      THEN BuclePaneles(lista, i + 1, pw,
                               Seleccion(Fin(total), DescPanel(cantidad, nombre),
                                         i, cantidad, 0))
                      ELSE BuclePaneles(lista, i + 1, pw, sel)

\* for nombre, capacidad, volt, precio in datos["Baterias"].get(categoria, [])
RECURSIVE BucleBaterias(_, _, _, _, _)
BucleBaterias(lista, i, vs, requerida, sel) ==
    IF i > Len(lista) THEN sel
    ELSE LET nombre == lista[i][1]
             capacidad == lista[i][2]
             volt == lista[i][3]
             precio == lista[i][4]
         IN  IF ModuloPorCero(capacidad, volt) THEN [sel EXCEPT !.error = TRUE]
             ELSE IF BateriaDescartada(capacidad, volt, vs)
             THEN BucleBaterias(lista, i + 1, vs, requerida, sel)
             ELSE LET en_serie == EnSerie(vs, volt)
                      en_paralelo == EnParalelo(requerida, capacidad)
                      total_bat == en_serie * en_paralelo
                      total == total_bat * precio
                  IN  IF MenorQue(total, sel.mejor)
                      THEN BucleBaterias(lista, i + 1, vs, requerida,
                               Seleccion(Fin(total),
                                         DescBateria(total_bat, nombre, en_serie,
                                                     en_paralelo),
                                         i, en_paralelo, en_serie))
                      ELSE BucleBaterias(lista, i + 1, vs, requerida, sel)

\* for nombre, capacidad, precio in datos["Inversores"].get(categoria, [])
RECURSIVE BucleInversores(_, _, _, _)
BucleInversores(lista, i, dm, sel) ==
    IF i > Len(lista) THEN sel
    ELSE LET nombre == lista[i][1]
             capacidad == lista[i][2]
             precio == lista[i][3]
         IN  IF InversorSuficiente(capacidad, dm) /\ MenorQue(precio, sel.mejor)
             THEN BucleInversores(lista, i + 1, dm,
                                  Seleccion(Fin(precio), nombre, i, 1, 0))
             ELSE BucleInversores(lista, i + 1, dm, sel)

\* for nombre, capacidad, precio in datos["Controladores"].get(categoria, [])
RECURSIVE BucleControladores(_, _, _)
BucleControladores(lista, i, sel) ==
    IF i > Len(lista) THEN sel
    ELSE LET nombre == lista[i][1]
             precio == lista[i][3]
         IN  IF MenorQue(precio, sel.mejor)
             THEN BucleControladores(lista, i + 1,
                                     Seleccion(Fin(precio), nombre, i, 1, 0))
             ELSE BucleControladores(lista, i + 1, sel)

\* The body of `for categoria in CATEGORIES`: the four selections of a tier.
SeleccionesDe(d, categoria, pw, cb, dm) ==
    [h \in Hojas |->
        CASE h = "Paneles" ->
                BuclePaneles(d[h][categoria], 1, pw, SeleccionInicial(categoria, h))
          [] h = "Baterias" ->
                BucleBaterias(d[h][categoria], 1, VoltSistema(pw),
                              CapacidadRequerida(cb, VoltSistema(pw), categoria),
                              SeleccionInicial(categoria, h))
          [] h = "Inversores" ->
                BucleInversores(d[h][categoria], 1, dm, SeleccionInicial(categoria, h))
          [] h = "Controladores" ->
                BucleControladores(d[h][categoria], 1, SeleccionInicial(categoria, h))]

\* resultados[categoria][familia] = (mejor_desc, mejor if mejor < math.inf else 0.0)
LineaDe(sel) == <<sel.desc, PrecioFinal(sel.mejor)>>

\* What the call raises, the kit it returns and the locals of the winning
\* iterations, from the selections of the three tiers.  A ZeroDivisionError
\* in any tier leaves no kit.
KitDe(sels) ==
    IF \E c \in Categorias : sels[c]["Baterias"].error
    THEN [excepcion |-> "ZeroDivisionError", resultados |-> Nada, elegido |-> Nada]
    ELSE [excepcion |-> "ninguna",
          resultados |-> [c \in Categorias |-> [h \in Hojas |-> LineaDe(sels[c][h])]],
          elegido |-> [c \in Categorias |-> [h \in Hojas |->
                          [idx |-> sels[c][h].idx,
                           cantidad |-> sels[c][h].cantidad,
                           serie |-> sels[c][h].serie]]]]

\* The whole call
CalcularKit(d, pw, cb, dm) ==
    KitDe([c \in Categorias |-> SeleccionesDe(d, c, pw, cb, dm)])

----------------------------------------------------------------------------
(* The runs *)

\* No load list, curve or result of the load functions is held
SinMotor ==
    /\ cargas = Nada
    /\ curva = Nada
    /\ energia = Nada
    /\ necesidades = Nada
    /\ demanda = Nada
    /\ amortizacion = Nada

\* No stock or ledger is held
SinAlmacen ==
    /\ inventario = Nada
    /\ archivo = Nada
    /\ movimientos = Nada
    /\ historia = Nada
    /\ table = Nada

SinAnterior ==
    [hay |-> FALSE, pw |-> 0, cb |-> 0, dm |-> 0, excepcion |-> "ninguna",
     resultados |-> Nada, otras |-> FALSE]

\* Precios.main before leer_datos has read a row
Init ==
    /\ datos = DatosVacios
    /\ pc = "leer"
    /\ potencia_panel = 0
    /\ capacidad_bateria = 0
    /\ demanda_maxima = 0
    /\ resultados = Nada
    /\ excepcion = "ninguna"
    /\ elegido = Nada
    /\ anterior = SinAnterior
    /\ SinMotor
    /\ SinAlmacen

\* leer_datos reads one more row of equipos.xlsx
LeerFila ==
    /\ pc = "leer"
    /\ TotalFilas(datos) < MaxFilas
    /\ \E f \in Filas : datos' = AgregarFila(datos, f)
    /\ UNCHANGED <<pc, potencia_panel, capacidad_bateria, demanda_maxima,
                   resultados, excepcion, elegido, anterior>>
    /\ UNCHANGED <<motor, almacen>>

\* The caller receives r, the outcome of the call
Recibir(pw, cb, dm, r) ==
    /\ potencia_panel' = pw
    /\ capacidad_bateria' = cb
    /\ demanda_maxima' = dm
    /\ resultados' = r.resultados
    /\ excepcion' = r.excepcion
    /\ elegido' = r.elegido
    /\ pc' = "calculado"
    /\ UNCHANGED datos

\* resultados = calcular_kit(datos, pot_panel, cap_bat, demanda_max)
LlamarCalcularKit(pw, cb, dm) == Recibir(pw, cb, dm, CalcularKit(datos, pw, cb, dm))

\* Precios.main: leer_datos has returned; the one call of calcular_kit
Presupuestar ==
    /\ pc = "leer"
    /\ \E pw \in PotenciasPanel, cb \in CapacidadesBateria, dm \in DemandasMaximas :
          LlamarCalcularKit(pw, cb, dm)
    /\ UNCHANGED anterior
    /\ UNCHANGED <<motor, almacen>>

Next == LeerFila \/ Presupuestar

Spec == Init /\ [][Next]_vars

----------------------------------------------------------------------------
(* The session of Ahorros.main: the catalog is read once, then the handler *)
(* of "Ejecutar simulacion" calls calcular_kit as often as the user asks.  *)

\* The rows every file of the session starts with
FilasBase ==
    <<Fila("Paneles", "Barato", <<P1, 50, 60>>),
      Fila("Paneles", "Barato", <<P2, 100, 100>>),
      Fila("Baterias", "Barato", <<B1, 40, 12, 40>>),
      Fila("Baterias", "Barato", <<B2, 60, 12, 55>>),
      Fila("Baterias", "Premium", <<B3, 100, 24, 90>>),
      Fila("Inversores", "Premium", <<I2, 1000, 200>>),
      Fila("Controladores", "Intermedio", <<K1, 10, 30>>)>>

\* Catalogs leer_datos returns for the files of the session: the base rows
\* and one more row of the first tier
CatalogosSesion ==
    {LeerDatos(Append(FilasBase, f)) : f \in {g \in Filas : g.categoria = "Barato"}}

InitSesion ==
    /\ datos \in CatalogosSesion
    /\ pc = "listo"
    /\ potencia_panel = 0
    /\ capacidad_bateria = 0
    /\ demanda_maxima = 0
    /\ resultados = Nada
    /\ excepcion = "ninguna"
    /\ elegido = Nada
    /\ anterior = SinAnterior
    /\ SinMotor
    /\ SinAlmacen

\* The call just made, kept for comparison
EstaLlamada(pw, cb, dm, r) ==
    [hay |-> TRUE, pw |-> pw, cb |-> cb, dm |-> dm, excepcion |-> r.excepcion,
     resultados |-> r.resultados, otras |-> FALSE]

\* The call kept before, with the note that a call with other inputs followed
Conservar(pw, cb, dm) ==
    IF anterior.hay /\ <<pw, cb, dm>> # <<anterior.pw, anterior.cb, anterior.dm>>
    THEN [anterior EXCEPT !.otras = TRUE]
    ELSE anterior

Recordar(pw, cb, dm, r) ==
    anterior' \in {EstaLlamada(pw, cb, dm, r), Conservar(pw, cb, dm)}

\* The call of the handler and its outcome r
EjecutarCon(pw, cb, dm, r) == Recibir(pw, cb, dm, r) /\ Recordar(pw, cb, dm, r)

\* ejecutar: an exception that escapes the handler ends the session
Ejecutar ==
    /\ pc \in {"listo", "calculado"}
    /\ excepcion = "ninguna"
    /\ \E pw \in PotenciasPanel, cb \in CapacidadesBateria, dm \in DemandasMaximas :
          EjecutarCon(pw, cb, dm, CalcularKit(datos, pw, cb, dm))
    /\ UNCHANGED <<motor, almacen>>

NextSesion == Ejecutar

SpecSesion == InitSesion /\ [][NextSesion]_vars

----------------------------------------------------------------------------
(* Load aggregation, sizing and amortization: energia_dia_noche,           *)
(* calcular_necesidades, potencia_maxima_demanda (Precios.py),             *)
(* energia_diaria_kwh and calcular_amortizacion (Ahorros.py).              *)

MaxCargas == 2

\* A load as leer_cargas and the load table build it
Carga(aparato, cantidad, carga, horas_dia, horas_noche) ==
    [aparato |-> aparato, cantidad |-> cantidad, carga |-> carga,
     horas_dia |-> horas_dia, horas_noche |-> horas_noche]

\* A load given without its night hours
SinHorasNoche(c) == [k \in DOMAIN c \ {"horas_noche"} |-> c[k]]

\* The loads of the lists: four lamps of 10 W, a radio with quantity 0, a
\* pump with no night hours stated, three chargers of 7 W.
ModelosCargas ==
    {Carga("Foco", 4, 10, 4, 2),
     Carga("Radio", 0, 50, 5, 5),
     SinHorasNoche(Carga("Bomba", 2, 375, 1, 0)),
     Carga("Cargador", 3, 7, 1, 1)}

RECURSIVE ListasDe(_)
ListasDe(n) ==
    IF n = 0 THEN {<<>>}
    ELSE LET cortas == ListasDe(n - 1)
         IN  cortas \cup {Append(l, c) : l \in {k \in cortas : Len(k) = n - 1},
                                         c \in ModelosCargas}

ListasCargas == ListasDe(MaxCargas)

\* curva_irradiacion_cusco: dict(zip(range(6, 20), valores))
CurvaCusco ==
    [h \in 6..19 |->
        <<0, 100, 300, 500, 700, 850, 950, 1000, 950, 800, 600, 400, 200, 0>>[h - 5]]

\* dict.get(clave, defecto): the value returned
Get(dict, clave, defecto) == IF clave \in DOMAIN dict THEN dict[clave] ELSE defecto

\* dict[clave] = valor: the dict after the assignment
Poner(dict, clave, valor) ==
    [k \in DOMAIN dict \cup {clave} |-> IF k = clave THEN valor ELSE dict[k]]

\* dict.setdefault(clave, defecto): the dict after the call
SetDefault(dict, clave, defecto) ==
    IF clave \in DOMAIN dict THEN dict ELSE Poner(dict, clave, defecto)

\* Variant: dict.setdefault(clave, defecto), which stores the default
TrasSetDefault(dict, clave, defecto) == SetDefault(dict, clave, defecto)

\* dict.get(clave, defecto): the dict after the call
TrasGet(dict, clave, defecto) == dict

\* Variant: the quantity left out
PotenciaSinCantidad(carga) == carga["carga"]

\* potencia = carga["carga"] * carga["cantidad"]
PotenciaDeCarga(carga) == carga["carga"] * carga["cantidad"]

\* for carga in cargas: the sums so far and the list as the loop leaves it
RECURSIVE BucleEnergia(_, _, _, _)
BucleEnergia(lista, i, energia_dia, energia_noche) ==
    IF i > Len(lista)
    THEN [energia |-> <<energia_dia, energia_noche>>, cargas |-> lista]
    ELSE LET carga == lista[i]
             potencia == PotenciaDeCarga(carga)
             tras == TrasGet(TrasGet(carga, "horas_dia", 0), "horas_noche", 0)
         IN  BucleEnergia([lista EXCEPT ![i] = tras], i + 1,
                          energia_dia + potencia * Get(carga, "horas_dia", 0),
                          energia_noche + potencia * Get(carga, "horas_noche", 0))

\* energia_dia_noche(cargas, curva)
EnergiaDiaNoche(lista, c) == BucleEnergia(lista, 1, 0, 0)

\* horas_solares_efectivas(curva): return 5.0
HorasSolaresEfectivas(c) == 5

\* Variant: the night energy left out of the panel power
PotenciaPanelSoloDia(energia_dia, energia_noche, hs) ==
    IF hs # 0 THEN FracDiv(Frac(energia_dia), Frac(hs)) ELSE Frac(0)

\* potencia_panel = (energia_dia + energia_noche) / hs if hs else 0
PotenciaPanelCon(energia_dia, energia_noche, hs) ==
    IF hs # 0 THEN FracDiv(Frac(energia_dia + energia_noche), Frac(hs)) ELSE Frac(0)

\* capacidad_bateria = energia_noche / 12
CapacidadBateriaDe(energia_noche) == FracDiv(Frac(energia_noche), Frac(12))

\* calcular_necesidades(cargas, curva)
CalcularNecesidades(lista, c) ==
    LET r == EnergiaDiaNoche(lista, c)
        hs == HorasSolaresEfectivas(c)
    IN  [necesidades |-> <<PotenciaPanelCon(r.energia[1], r.energia[2], hs),
                           CapacidadBateriaDe(r.energia[2])>>,
         cargas |-> r.cargas]

\* Variant: the power weighted by the hours of use
PotenciaEnHoras(carga) ==
    carga["carga"] * carga["cantidad"] * Get(carga, "horas_dia", 0)

\* carga["carga"] * carga["cantidad"], the term of the sum
PotenciaSimultanea(carga) == carga["carga"] * carga["cantidad"]

\* potencia_maxima_demanda(cargas): sum(... for carga in cargas)
RECURSIVE PotenciaMaximaDemanda(_)
PotenciaMaximaDemanda(lista) ==
    IF lista = <<>> THEN 0
    ELSE PotenciaMaximaDemanda(SubSeq(lista, 1, Len(lista) - 1))
         + PotenciaSimultanea(lista[Len(lista)])

\* energia_diaria_kwh(cargas, curva): (energia_dia + energia_noche) / 1000
EnergiaDiariaKwh(lista, c) ==
    LET r == EnergiaDiaNoche(lista, c)
    IN  [daily_kwh |-> FracDiv(Frac(r.energia[1] + r.energia[2]), Frac(1000)),
         cargas |-> r.cargas]

\* COSTO_RED = 0.83
COSTO_RED == <<83, 100>>

VIDA_UTIL_ANIOS == 20

\* a - b
FracSub(a, b) == <<a[1] * b[2] - b[1] * a[2], a[2] * b[2]>>

\* sum(p for _, p in presupuesto.values())
RECURSIVE SumaPrecios(_, _)
SumaPrecios(presupuesto, familias) ==
    IF familias = {} THEN 0
    ELSE LET h == CHOOSE k \in familias : TRUE
         IN  presupuesto[h][2] + SumaPrecios(presupuesto, familias \ {h})

\* Variant: the division made whatever the divisor
SiempreVerdadero(x) == TRUE

\* The truth value of a float in `a / x if x else float("inf")`
EsVerdadero(x) == ~FracEsCero(x)

\* a / b, which raises ZeroDivisionError when b is 0.0
Dividir(a, b) ==
    IF FracEsCero(b) THEN [error |-> TRUE, v |-> Inf]
    ELSE [error |-> FALSE, v |-> Fin(FracDiv(a, b))]

\* float("inf"), the value of the conditional when the test is false
SinDividir == [error |-> FALSE, v |-> Inf]

\* calcular_amortizacion(presupuesto, daily_kwh)
CalcularAmortizacion(presupuesto, daily_kwh) ==
    LET costo_sistema == SumaPrecios(presupuesto, DOMAIN presupuesto)
        costo_anual_red == FracMul(FracMul(daily_kwh, COSTO_RED), Frac(365))
        payback ==
            IF EsVerdadero(costo_anual_red)
            THEN Dividir(Frac(costo_sistema), costo_anual_red)
            ELSE SinDividir
        costo_kwh ==
            IF EsVerdadero(daily_kwh)
            THEN Dividir(Frac(costo_sistema),
                         FracMul(FracMul(daily_kwh, Frac(365)), Frac(VIDA_UTIL_ANIOS)))
            ELSE SinDividir
        ahorro_total ==
            FracSub(FracMul(costo_anual_red, Frac(VIDA_UTIL_ANIOS)), Frac(costo_sistema))
    IN  IF payback.error \/ costo_kwh.error
        THEN [excepcion |-> "ZeroDivisionError", valor |-> Nada]
        ELSE [excepcion |-> "ninguna",
              valor |-> [costo_sistema |-> costo_sistema, costo_kwh |-> costo_kwh.v,
                         payback |-> payback.v, ahorro_total |-> ahorro_total]]

----------------------------------------------------------------------------
(* The functions of the engine called in any order on a catalog and a load *)
(* list, as Precios.main and the handler of "Ejecutar simulacion" call     *)
(* them; every call leaves its arguments as the code leaves them.          *)

\* Catalogs of the calls: the base rows, and a file with no rows
CatalogosMotor == {LeerDatos(FilasBase), DatosVacios}

\* Arguments of the calls of calcular_kit: <<potencia_panel, capacidad_bateria,
\* demanda_maxima>>
LlamadasMotor == {<<48, 100, 400>>, <<1501, 0, 600>>}

InitMotor ==
    /\ datos \in CatalogosMotor
    /\ pc = "listo"
    /\ potencia_panel = 0
    /\ capacidad_bateria = 0
    /\ demanda_maxima = 0
    /\ resultados = Nada
    /\ excepcion = "ninguna"
    /\ elegido = Nada
    /\ anterior = SinAnterior
    /\ cargas \in ListasCargas
    /\ curva = CurvaCusco
    /\ energia = Nada
    /\ necesidades = Nada
    /\ demanda = Nada
    /\ amortizacion = Nada
    /\ SinAlmacen

\* energia_dia, energia_noche = energia_dia_noche(cargas, curva)
LlamarEnergiaDiaNoche ==
    /\ excepcion = "ninguna"
    /\ LET r == EnergiaDiaNoche(cargas, curva)
       IN  /\ energia' = r.energia
           /\ cargas' = r.cargas
    /\ UNCHANGED <<seleccion, curva, necesidades, demanda, amortizacion, almacen>>

\* potencia_panel, capacidad_bateria = calcular_necesidades(cargas, curva)
LlamarCalcularNecesidades ==
    /\ excepcion = "ninguna"
    /\ LET r == CalcularNecesidades(cargas, curva)
       IN  /\ necesidades' = r.necesidades
           /\ cargas' = r.cargas
    /\ UNCHANGED <<seleccion, curva, energia, demanda, amortizacion, almacen>>

\* demanda_maxima = potencia_maxima_demanda(cargas)
LlamarPotenciaMaximaDemanda ==
    /\ excepcion = "ninguna"
    /\ demanda' = <<PotenciaMaximaDemanda(cargas)>>
    /\ UNCHANGED <<seleccion, cargas, curva, energia, necesidades, amortizacion,
                   almacen>>

\* The kit the caller holds from the call before, if any
KitAnterior ==
    IF resultados # Nada
    THEN EstaLlamada(potencia_panel, capacidad_bateria, demanda_maxima,
                     [excepcion |-> excepcion, resultados |-> resultados])
    ELSE anterior

\* resultados = calcular_kit(datos, pot_panel, cap_bat, demanda_max)
LlamarCalcularKitMotor ==
    /\ excepcion = "ninguna"
    /\ \E a \in LlamadasMotor : LlamarCalcularKit(a[1], a[2], a[3])
    /\ anterior' = KitAnterior
    /\ UNCHANGED <<motor, almacen>>

\* The outcome r of calcular_amortizacion on presupuesto and daily_kwh
RecibirAmortizacion(presupuesto, daily_kwh, r) ==
    /\ amortizacion' = [presupuesto |-> presupuesto, daily_kwh |-> daily_kwh,
                        valor |-> r.valor]
    /\ excepcion' = r.excepcion

\* daily_kwh = energia_diaria_kwh(cargas, curva)
\* calcular_amortizacion(resultados[cat], daily_kwh)
LlamarCalcularAmortizacion ==
    /\ excepcion = "ninguna"
    /\ resultados # Nada
    /\ \E cat \in Categorias :
          LET d == EnergiaDiariaKwh(cargas, curva)
          IN  /\ RecibirAmortizacion(resultados[cat], d.daily_kwh,
                     CalcularAmortizacion(resultados[cat], d.daily_kwh))
              /\ cargas' = d.cargas
    /\ UNCHANGED <<datos, pc, potencia_panel, capacidad_bateria, demanda_maxima,
                   resultados, elegido, anterior>>
    /\ UNCHANGED <<curva, energia, necesidades, demanda, almacen>>

NextMotor ==
    \/ LlamarEnergiaDiaNoche
    \/ LlamarCalcularNecesidades
    \/ LlamarPotenciaMaximaDemanda
    \/ LlamarCalcularKitMotor
    \/ LlamarCalcularAmortizacion

SpecMotor == InitMotor /\ [][NextMotor]_vars

----------------------------------------------------------------------------
(* gradordeinventario.py: the base stock of generar_inventario and the     *)
(* movements ingresar_stock and egresar_stock, called in any order with    *)
(* any arguments.  inventario is categoria -> producto -> cantidad.        *)

MaxMovimientos == 3

TIPOS == <<"Paneles", "Inversores", "Controladores">>

DEFAULT_STOCK == 10

\* {} : a dict with no key
DictVacio == <<>>

\* inventario = {t: {} for t in (*TIPOS, "Otros")}
InventarioBase ==
    [t \in {TIPOS[i] : i \in 1..Len(TIPOS)} \cup {"Otros"} |-> DictVacio]

\* categoria = nombre if nombre in TIPOS else "Otros"
CategoriaDeHoja(nombre) ==
    IF nombre \in {TIPOS[i] : i \in 1..Len(TIPOS)} THEN nombre ELSE "Otros"

\* generar_inventario on the rows of the workbook: every product at
\* DEFAULT_STOCK under the category of its sheet
RECURSIVE GenerarInventario(_)
GenerarInventario(filas) ==
    IF filas = <<>> THEN InventarioBase
    ELSE LET inv == GenerarInventario(SubSeq(filas, 1, Len(filas) - 1))
             f == filas[Len(filas)]
             categoria == CategoriaDeHoja(f.hoja)
         IN  Poner(inv, categoria, Poner(inv[categoria], f.tupla[1], DEFAULT_STOCK))

\* Inventories the movements start from
InventariosIniciales == {GenerarInventario(<<>>), GenerarInventario(FilasBase)}

\* Arguments of the movements
CategoriasMovidas == {"Paneles", "Baterias"}

ProductosMovidos == {P1, B1}

CantidadesMovidas == {-1, 0, 2, 11}

\* Variant: any quantity accepted
NuncaNegativa(cantidad) == FALSE

\* if cantidad < 0: raise ValueError
CantidadNegativa(cantidad) == cantidad < 0

\* Variant: any quantity taken out
NuncaInsuficiente(actual, cantidad) == FALSE

\* if actual < cantidad: raise ValueError("Stock insuficiente")
StockInsuficiente(actual, cantidad) == actual < cantidad

\* ingresar_stock(inventario, categoria, producto, cantidad): what it raises
\* and the inventory it leaves
IngresarStock(inv, categoria, producto, cantidad) ==
    IF CantidadNegativa(cantidad)
    THEN [excepcion |-> "ValueError", inventario |-> inv]
    ELSE LET con == SetDefault(inv, categoria, DictVacio)
         IN  [excepcion |-> "ninguna",
              inventario |->
                  Poner(con, categoria,
                        Poner(con[categoria], producto,
                              Get(con[categoria], producto, 0) + cantidad))]

\* egresar_stock(inventario, categoria, producto, cantidad)
EgresarStock(inv, categoria, producto, cantidad) ==
    IF CantidadNegativa(cantidad)
    THEN [excepcion |-> "ValueError", inventario |-> inv]
    ELSE LET con == SetDefault(inv, categoria, DictVacio)
             actual == Get(con[categoria], producto, 0)
         IN  IF StockInsuficiente(actual, cantidad)
             THEN [excepcion |-> "ValueError", inventario |-> con]
             ELSE [excepcion |-> "ninguna",
                   inventario |->
                       Poner(con, categoria,
                             Poner(con[categoria], producto, actual - cantidad))]

\* No quantity moved yet
SinSumas == [k \in CategoriasMovidas \X ProductosMovidos |-> 0]

InitInventario ==
    /\ datos = DatosVacios
    /\ pc = "inventario"
    /\ potencia_panel = 0
    /\ capacidad_bateria = 0
    /\ demanda_maxima = 0
    /\ resultados = Nada
    /\ excepcion = "ninguna"
    /\ elegido = Nada
    /\ anterior = SinAnterior
    /\ SinMotor
    /\ inventario \in InventariosIniciales
    /\ archivo = Nada
    /\ movimientos = Nada
    /\ historia = [inicial |-> inventario, previo |-> inventario, llamadas |-> 0,
                   ingresos |-> SinSumas, egresos |-> SinSumas]
    /\ table = Nada

\* The sums moved, after a call that moved cantidad if it did not raise
Sumar(sumas, r, categoria, producto, cantidad) ==
    IF r.excepcion = "ninguna"
    THEN [sumas EXCEPT ![<<categoria, producto>>] = @ + cantidad]
    ELSE sumas

\* The caller receives r, the outcome of a movement
RecibirMovimiento(r) ==
    /\ inventario' = r.inventario
    /\ excepcion' = r.excepcion
    /\ UNCHANGED <<datos, pc, potencia_panel, capacidad_bateria, demanda_maxima,
                   resultados, elegido, anterior, motor, archivo, movimientos,
                   table>>

LlamarIngresarStock(categoria, producto, cantidad, r) ==
    /\ RecibirMovimiento(r)
    /\ historia' = [historia EXCEPT
                       !.previo = inventario,
                       !.llamadas = @ + 1,
                       !.ingresos = Sumar(@, r, categoria, producto, cantidad)]

LlamarEgresarStock(categoria, producto, cantidad, r) ==
    /\ RecibirMovimiento(r)
    /\ historia' = [historia EXCEPT
                       !.previo = inventario,
                       !.llamadas = @ + 1,
                       !.egresos = Sumar(@, r, categoria, producto, cantidad)]

Ingresar ==
    /\ historia.llamadas < MaxMovimientos
    /\ \E categoria \in CategoriasMovidas, producto \in ProductosMovidos,
          cantidad \in CantidadesMovidas :
          LlamarIngresarStock(categoria, producto, cantidad,
                              IngresarStock(inventario, categoria, producto, cantidad))

Egresar ==
    /\ historia.llamadas < MaxMovimientos
    /\ \E categoria \in CategoriasMovidas, producto \in ProductosMovidos,
          cantidad \in CantidadesMovidas :
          LlamarEgresarStock(categoria, producto, cantidad,
                             EgresarStock(inventario, categoria, producto, cantidad))

NextInventario == Ingresar \/ Egresar

SpecInventario == InitInventario /\ [][NextInventario]_vars

----------------------------------------------------------------------------
(* Ahorros.main: the sale of the kit of a tier against the stock.          *)
(* inventario is producto -> cantidad; archivo is the inventory passed to  *)
(* the last call of guardar_inventario, movimientos the calls made of      *)
(* registrar_movimiento.                                                   *)

MaxVentas == 2

Digitos == {"0", "1", "2", "3", "4", "5", "6", "7", "8", "9"}

\* The characters \s matches
Espacios == {" "}

\* Number of leading characters of s that are in C
Prefijo(s, C) ==
    CHOOSE n \in 0..Len(s) :
        /\ \A i \in 1..n : s[i] \in C
        /\ n = Len(s) \/ s[n + 1] \notin C

\* Number of leading characters of s that are not in C
PrefijoFuera(s, C) ==
    CHOOSE n \in 0..Len(s) :
        /\ \A i \in 1..n : s[i] \notin C
        /\ n = Len(s) \/ s[n + 1] \in C

\* Number of trailing characters of s that are in C
Sufijo(s, C) ==
    CHOOSE n \in 0..Len(s) :
        /\ \A i \in (Len(s) - n + 1)..Len(s) : s[i] \in C
        /\ n = Len(s) \/ s[Len(s) - n] \notin C

\* str.strip()
Strip(s) ==
    LET sin_inicio == SubSeq(s, Prefijo(s, Espacios) + 1, Len(s))
    IN  SubSeq(sin_inicio, 1, Len(sin_inicio) - Sufijo(sin_inicio, Espacios))

\* int() of a sequence of digits
RECURSIVE Entero(_)
Entero(s) ==
    IF s = <<>> THEN 0
    ELSE Entero(SubSeq(s, 1, Len(s) - 1)) * 10
         + (CHOOSE d \in 0..9 : Digito(d) = s[Len(s)])

\* Variant: the quantity of every item taken as 1
ParseItemUno(desc) == <<Strip(SubSeq(desc, 1, PrefijoFuera(desc, {"("}))), 1>>

\* parse_item(desc): <<name, qty>>.  re.match(r"(\d+)\s*x\s*([^()]+)", desc)
\* matches when desc starts with digits, then optional spaces, then "x",
\* then at least one character that is no parenthesis; group 2 runs to the
\* first parenthesis.  Otherwise qty is 1 and the name is what comes before
\* the first "(".
ParseItem(desc) ==
    LET nd == Prefijo(desc, Digitos)
        tras_digitos == SubSeq(desc, nd + 1, Len(desc))
        tras_espacios ==
            SubSeq(tras_digitos, Prefijo(tras_digitos, Espacios) + 1, Len(tras_digitos))
        hay_x == tras_espacios # <<>> /\ tras_espacios[1] = "x"
        resto == SubSeq(tras_espacios, 2, Len(tras_espacios))
        grupo == SubSeq(resto, 1, PrefijoFuera(resto, {"(", ")"}))
    IN  IF nd > 0 /\ hay_x /\ grupo # <<>>
        THEN <<Strip(grupo), Entero(SubSeq(desc, 1, nd))>>
        ELSE <<Strip(SubSeq(desc, 1, PrefijoFuera(desc, {"("}))), 1>>

\* The order of pres.values(): the order calcular_kit fills a tier in
OrdenFamilias == <<"Paneles", "Baterias", "Inversores", "Controladores">>

\* sum(p for _, p in pres.values()), times 1.18 with IGV
TotalVenta(pres, con_igv) ==
    IF con_igv THEN FracMul(Frac(SumaPrecios(pres, DOMAIN pres)), <<118, 100>>)
    ELSE Frac(SumaPrecios(pres, DOMAIN pres))

\* f"Venta {cat} {'con' if con_igv else 'sin'} IGV"
Concepto(cat, con_igv) == <<"Venta", cat, IF con_igv THEN "con" ELSE "sin", "IGV">>

\* Variant: the stock never found short
SiempreAlcanza(inv, nombre, cant) == FALSE

\* if inventario.get(nombre, 0) < cant
Falta(inv, nombre, cant) == Get(inv, nombre, 0) < cant

\* faltantes: the names of the line items whose stock is short, in order
RECURSIVE Faltantes(_, _, _)
Faltantes(pres, inv, i) ==
    IF i > Len(OrdenFamilias) THEN <<>>
    ELSE LET item == ParseItem(pres[OrdenFamilias[i]][1])
         IN  (IF Falta(inv, item[1], item[2]) THEN <<item[1]>> ELSE <<>>)
             \o Faltantes(pres, inv, i + 1)

\* for desc, _ in pres.values(): inventario[nombre] = inventario.get(nombre, 0) - cant
RECURSIVE Descontar(_, _, _)
Descontar(pres, inv, i) ==
    IF i > Len(OrdenFamilias) THEN inv
    ELSE LET item == ParseItem(pres[OrdenFamilias[i]][1])
         IN  Descontar(pres, Poner(inv, item[1], Get(inv, item[1], 0) - item[2]), i + 1)

\* The rows of the catalog of the sales: in the first tier the inverter I1
\* also sold as controller; the last tier has no rows.
FilasVenta ==
    <<Fila("Paneles", "Barato", <<P1, 50, 60>>),
      Fila("Baterias", "Barato", <<B1, 40, 12, 40>>),
      Fila("Inversores", "Barato", <<I1, 500, 150>>),
      Fila("Controladores", "Barato", <<I1, 10, 30>>),
      Fila("Paneles", "Intermedio", <<P2, 100, 100>>),
      Fila("Baterias", "Intermedio", <<B2, 60, 12, 55>>),
      Fila("Inversores", "Intermedio", <<I2, 1000, 200>>),
      Fila("Controladores", "Intermedio", <<K1, 10, 30>>)>>

\* Inventories leer_inventario may return: producto -> cantidad, all >= 0
InventariosVenta ==
    {(P1 :> 10) @@ (P2 :> 10) @@ (B1 :> 10) @@ (B2 :> 10) @@ (I1 :> 1) @@ (I2 :> 1)
        @@ (K1 :> 10),
     (P1 :> 40) @@ (B1 :> 4) @@ (I1 :> 2),
     DictVacio}

InitVentas ==
    /\ datos = LeerDatos(FilasVenta)
    /\ pc = "listo"
    /\ potencia_panel = 0
    /\ capacidad_bateria = 0
    /\ demanda_maxima = 0
    /\ resultados = Nada
    /\ excepcion = "ninguna"
    /\ elegido = Nada
    /\ anterior = SinAnterior
    /\ SinMotor
    /\ inventario \in InventariosVenta
    /\ archivo = inventario
    /\ movimientos = <<>>
    /\ historia = [inicial |-> inventario, previo |-> inventario, ventas |-> 0,
                   pres |-> Nada, registrados |-> 0]
    /\ table = Nada

\* ejecutar: resultados = calcular_kit(datos, pot_panel, cap_bat, demanda_max)
EjecutarSimulacion ==
    /\ excepcion = "ninguna"
    /\ \E a \in LlamadasMotor : LlamarCalcularKit(a[1], a[2], a[3])
    /\ UNCHANGED <<anterior, motor, almacen>>

\* The stock, the file and the ledger after vender_sistema(cat, con_igv) on
\* the kit pres of the tier
VenderCon(pres, cat, con_igv) ==
    IF pres = Nada \/ Faltantes(pres, inventario, 1) # <<>>
    THEN UNCHANGED <<inventario, archivo, movimientos>>
    ELSE /\ inventario' = Descontar(pres, inventario, 1)
         /\ archivo' = inventario'
         /\ movimientos' = Append(movimientos,
                                  <<Concepto(cat, con_igv), TotalVenta(pres, con_igv)>>)

\* vender_sistema(cat, con_igv): pres = resultados.get(cat)
VenderSistema ==
    /\ excepcion = "ninguna"
    /\ historia.ventas < MaxVentas
    /\ \E cat \in Categorias, con_igv \in BOOLEAN :
          /\ VenderCon(Get(resultados, cat, Nada), cat, con_igv)
          /\ historia' = [historia EXCEPT
                             !.previo = inventario,
                             !.ventas = @ + 1,
                             !.pres = Get(resultados, cat, Nada),
                             !.registrados = Len(movimientos)]
    /\ pc' = "venta"
    /\ UNCHANGED <<datos, potencia_panel, capacidad_bateria, demanda_maxima,
                   resultados, excepcion, elegido, anterior, motor, table>>

NextVentas == EjecutarSimulacion \/ VenderSistema

SpecVentas == InitVentas /\ [][NextVentas]_vars

----------------------------------------------------------------------------
(* Ahorros.main: the inventory dialog (mostrar_inventario).  Here          *)
(* inventario is the dict in insertion order, a sequence of pairs          *)
(* <<producto, cantidad>> whose cantidad is a Python number; table is the  *)
(* sequence of rows <<item of column 0, item of column 1>>; archivo is the *)
(* inventory passed to the last call of guardar_inventario.                *)

\* A Python number: an int, or a float that is finite, an infinity or nan.
\* A finite number is signo * n / 10^k, n no multiple of 10 unless k = 0;
\* the float -0.0 is signo -1 with n 0.
EnteroPy(n) ==
    [tipo |-> "int", clase |-> "finito", signo |-> IF n < 0 THEN -1 ELSE 1,
     n |-> IF n < 0 THEN -n ELSE n, k |-> 0]

Flotante(signo, n, k) ==
    [tipo |-> "float", clase |-> "finito", signo |-> signo, n |-> n, k |-> k]

NaN == [tipo |-> "float", clase |-> "nan", signo |-> 1, n |-> 0, k |-> 0]

Infinito(signo) == [tipo |-> "float", clase |-> "inf", signo |-> signo, n |-> 0, k |-> 0]

\* str(cant) of a number: an int prints its digits, a float always with a
\* point ("5.0", "2.5", "0.05", "-0.0"), "nan", "inf", "-inf".  (Python turns
\* to the exponent form from 1e16 on and below 1e-4.)
Str(v) ==
    LET menos == IF v.signo = -1 THEN <<"-">> ELSE <<>>
        cifras == Dec(v.n)
        ceros == [i \in 1..(v.k + 1 - Len(cifras)) |-> "0"]
        todas == ceros \o cifras
    IN  IF v.clase = "nan" THEN <<"n", "a", "n">>
        ELSE IF v.clase = "inf" THEN menos \o <<"i", "n", "f">>
        ELSE IF v.tipo = "int" THEN menos \o cifras
        ELSE menos \o SubSeq(todas, 1, Len(todas) - v.k) \o <<".">>
             \o (IF v.k = 0 THEN <<"0">>
                 ELSE SubSeq(todas, Len(todas) - v.k + 1, Len(todas)))

\* float(texto): [error, valor].  Surrounding spaces are dropped; after an
\* optional sign come "nan", "inf", "infinity", or digits with an optional
\* point of which one side may be empty ("5", "5.", ".5", "2.50"); any other
\* text raises ValueError.  (float also takes capitals in the words, an
\* exponent and "_" between digits.)
Float(texto) ==
    LET s == Strip(texto)
        signo == IF s # <<>> /\ s[1] = "-" THEN -1 ELSE 1
        cuerpo == IF s # <<>> /\ s[1] \in {"+", "-"} THEN Tail(s) ELSE s
        ne == Prefijo(cuerpo, Digitos)
        tras == SubSeq(cuerpo, ne + 1, Len(cuerpo))
        hay_punto == tras # <<>> /\ tras[1] = "."
        fraccion == IF hay_punto THEN Tail(tras) ELSE <<>>
        es_decimal ==
            /\ ne + Len(fraccion) > 0
            /\ Prefijo(fraccion, Digitos) = Len(fraccion)
            /\ hay_punto \/ tras = <<>>
        cifras == SubSeq(fraccion, 1, Len(fraccion) - Sufijo(fraccion, {"0"}))
    IN  IF cuerpo = <<"n", "a", "n">> THEN [error |-> FALSE, valor |-> NaN]
        ELSE IF cuerpo \in {<<"i", "n", "f">>,
                            <<"i", "n", "f", "i", "n", "i", "t", "y">>}
        THEN [error |-> FALSE, valor |-> Infinito(signo)]
        ELSE IF es_decimal
        THEN [error |-> FALSE,
              valor |-> Flotante(signo, Entero(SubSeq(cuerpo, 1, ne) \o cifras),
                                 Len(cifras))]
        ELSE [error |-> TRUE, valor |-> NaN]

\* cantidad < 0: false of -0.0 and of nan
Negativa(cantidad) ==
    /\ cantidad.signo = -1
    /\ cantidad.clase = "inf" \/ (cantidad.clase = "finito" /\ cantidad.n > 0)

\* dict[clave] = valor: a key the dict holds keeps its place, a new one is
\* added at the end
Asignar(dict, clave, valor) ==
    IF \E i \in DOMAIN dict : dict[i][1] = clave
    THEN [i \in DOMAIN dict |-> IF dict[i][1] = clave THEN <<clave, valor>> ELSE dict[i]]
    ELSE Append(dict, <<clave, valor>>)

\* QTableWidgetItem(text); table.item(r, c) of a cell without item is Nada
Item(texto) == <<texto>>

\* item.text()
Text(item) == item[1]

\* The rows mostrar_inventario fills: one per product, in the dict's order
LlenarTabla(inv) == [r \in DOMAIN inv |-> <<Item(inv[r][1]), Item(Str(inv[r][2]))>>]

\* The loop of guardar from row r on: [error, producto, inventario], error
\* when a row made it return, producto the one the warning names
RECURSIVE BucleGuardar(_, _, _)
BucleGuardar(filas, inv, r) ==
    IF r > Len(filas) THEN [error |-> FALSE, producto |-> Nada, inventario |-> inv]
    ELSE LET prod_item == filas[r][1]
             qty_item == filas[r][2]
         IN  IF prod_item = Nada \/ qty_item = Nada
             THEN BucleGuardar(filas, inv, r + 1)
             ELSE LET producto == Text(prod_item)
                      cantidad == Float(Text(qty_item))
                  IN  IF cantidad.error \/ Negativa(cantidad.valor)
                      THEN [error |-> TRUE, producto |-> producto, inventario |-> inv]
                      ELSE BucleGuardar(filas, Asignar(inv, producto, cantidad.valor),
                                        r + 1)

\* Inventories leer_inventario may return
InventariosDialogo ==
    {<<<<P1, EnteroPy(10)>>, <<B1, EnteroPy(4)>>>>,
     <<<<I1, EnteroPy(1)>>>>}

\* Texts typed into a cell of column 1
TextosCantidad ==
    {<<"5">>, <<" ", "2", ".", "5">>, <<"-", "1">>, <<"a", "b", "c">>, <<"n", "a", "n">>}

\* Texts typed into a cell of column 0
TextosProducto == {B1}

\* Clicks of "Guardar cambios" in a run
MaxClics == 2

\* No click of "Guardar cambios" has its outcome on screen; clics counts
\* the clicks made so far
SinGuardar(clics) == [previo |-> Nada, archivo |-> Nada, aviso |-> Nada, clics |-> clics]

InitDialogo ==
    /\ datos = DatosVacios
    /\ pc = "principal"
    /\ potencia_panel = 0
    /\ capacidad_bateria = 0
    /\ demanda_maxima = 0
    /\ resultados = Nada
    /\ excepcion = "ninguna"
    /\ elegido = Nada
    /\ anterior = SinAnterior
    /\ SinMotor
    /\ inventario \in InventariosDialogo
    /\ archivo = inventario
    /\ movimientos = <<>>
    /\ historia = SinGuardar(0)
    /\ table = Nada

\* mostrar_inventario up to dlg.exec_(): the dialog opens on the stock, its
\* cells not editable
MostrarInventario ==
    /\ pc = "principal"
    /\ table' = LlenarTabla(inventario)
    /\ pc' = "dialogo"
    /\ historia' = SinGuardar(historia.clics)
    /\ UNCHANGED <<inventario, archivo>>
    /\ UNCHANGED <<datos, potencia_panel, capacidad_bateria, demanda_maxima,
                   resultados, excepcion, elegido, anterior, motor, movimientos>>

\* habilitar_edicion: nothing changes unless pedir_login() accepts; then the
\* cells are editable and "Guardar cambios" is there
HabilitarEdicion ==
    /\ pc = "dialogo"
    /\ \E login \in BOOLEAN : pc' = IF login THEN "edicion" ELSE pc
    /\ UNCHANGED <<inventario, archivo, historia, table>>
    /\ UNCHANGED <<datos, potencia_panel, capacidad_bateria, demanda_maxima,
                   resultados, excepcion, elegido, anterior, motor, movimientos>>

\* The user commits the edit of a cell while the edit triggers are on
EditarCelda ==
    /\ pc \in {"edicion", "rechazado"}
    /\ \E r \in DOMAIN table :
          \/ \E texto \in TextosProducto : table' = [table EXCEPT ![r][1] = Item(texto)]
          \/ \E texto \in TextosCantidad : table' = [table EXCEPT ![r][2] = Item(texto)]
    /\ pc' = "edicion"
    /\ historia' = SinGuardar(historia.clics)
    /\ UNCHANGED <<inventario, archivo>>
    /\ UNCHANGED <<datos, potencia_panel, capacidad_bateria, demanda_maxima,
                   resultados, excepcion, elegido, anterior, motor, movimientos>>

\* guardar: the click of "Guardar cambios" while it is enabled.  On a
\* warning it returns before guardar_inventario; otherwise the inventory is
\* saved, the edit triggers are off and "Guardar cambios" is disabled.
Guardar ==
    /\ pc \in {"edicion", "rechazado"}
    /\ historia.clics < MaxClics
    /\ LET g == BucleGuardar(table, inventario, 1)
       IN  /\ inventario' = g.inventario
           /\ archivo' = IF g.error THEN archivo ELSE g.inventario
           /\ pc' = IF g.error THEN "rechazado" ELSE "guardado"
           /\ historia' = [previo |-> inventario, archivo |-> archivo,
                           aviso |-> g.producto, clics |-> historia.clics + 1]
    /\ UNCHANGED table
    /\ UNCHANGED <<datos, potencia_panel, capacidad_bateria, demanda_maxima,
                   resultados, excepcion, elegido, anterior, motor, movimientos>>

\* "Cerrar": dlg.accept() ends dlg.exec_()
Cerrar ==
    /\ pc \in {"dialogo", "edicion", "rechazado", "guardado"}
    /\ pc' = "principal"
    /\ table' = Nada
    /\ historia' = SinGuardar(historia.clics)
    /\ UNCHANGED <<inventario, archivo>>
    /\ UNCHANGED <<datos, potencia_panel, capacidad_bateria, demanda_maxima,
                   resultados, excepcion, elegido, anterior, motor, movimientos>>

NextDialogo ==
    MostrarInventario \/ HabilitarEdicion \/ EditarCelda \/ Guardar \/ Cerrar

SpecDialogo == InitDialogo /\ [][NextDialogo]_vars

----------------------------------------------------------------------------
(* Properties *)

\* ceil(a / b) for a >= 0, b > 0
CeilDiv(a, b) == (a + b - 1) \div b

Minimo(S) == CHOOSE m \in S : \A x \in S : m <= x

\* The last call of calcular_kit returned a kit
Devuelto == pc = "calculado" /\ excepcion = "ninguna"

Lista(h, c) == datos[h][c]

Linea(h, c) == resultados[c][h]

\* System voltage and depth of discharge as the specification states them
VoltajeEsperado == 
    IF potencia_panel <= 1500 THEN 12
    ELSE IF potencia_panel <= 5000 THEN 24 ELSE 48

\* DoD as numerator and denominator: 0.5 = 5/10, 0.9 = 9/10
DodEsperado(c) == IF c = "Premium" THEN <<9, 10>> ELSE <<5, 10>>

\* Panel entries of tier c with capacity > 0
PanelesElegibles(c) == {i \in 1..Len(Lista("Paneles", c)) : Lista("Paneles", c)[i][2] > 0}

\* ceil(panelWatts / capacity) * price of panel entry i of tier c
CostoPanel(c, i) ==
    CeilDiv(potencia_panel, Lista("Paneles", c)[i][2]) * Lista("Paneles", c)[i][3]

\* C1: in every tier with a panel entry of capacity > 0, the price of the
\* Paneles line item is the minimum of ceil(panelWatts / capacity) * price
\* over the tier's panel entries with capacity > 0.
C1_PanelMinimo ==
    Devuelto =>
        \A c \in Categorias :
            PanelesElegibles(c) # {} =>
                Linea("Paneles", c)[2]
                    = Minimo({CostoPanel(c, i) : i \in PanelesElegibles(c)})

\* A tier with two eligible panels where the later one is cheaper and is
\* the one priced in the kit.
C1_Testigo ==
    /\ Devuelto
    /\ \E c \in Categorias : \E i, j \in PanelesElegibles(c) :
          /\ i < j
          /\ CostoPanel(c, j) < CostoPanel(c, i)
          /\ Linea("Paneles", c)[2] = CostoPanel(c, j)

\* C2: every chosen entry is sufficient: panel count * capacity >= panelWatts;
\* strings in parallel * amp-hours >= night energy / system voltage / DoD,
\* the night energy being batteryAh * 12; inverter capacity >= peak demand.
\* The counts are those the description of the line item states.
C2_Suficiente ==
    Devuelto =>
        \A c \in Categorias :
            /\ LET e == elegido[c]["Paneles"]
               IN  e.idx # 0 =>
                     LET ent == Lista("Paneles", c)[e.idx]
                     IN  /\ e.cantidad * ent[2] >= potencia_panel
                         /\ Linea("Paneles", c)[1] = DescPanel(e.cantidad, ent[1])
            /\ LET e == elegido[c]["Baterias"]
               IN  e.idx # 0 =>
                     LET ent == Lista("Baterias", c)[e.idx]
                         dod == DodEsperado(c)
                     IN  /\ e.cantidad * ent[2] * VoltajeEsperado * dod[1]
                               >= capacidad_bateria * 12 * dod[2]
                         /\ Linea("Baterias", c)[1]
                               = DescBateria(e.serie * e.cantidad, ent[1], e.serie,
                                             e.cantidad)
            /\ LET e == elegido[c]["Inversores"]
               IN  e.idx # 0 =>
                     LET ent == Lista("Inversores", c)[e.idx]
                     IN  /\ ent[2] >= demanda_maxima
                         /\ Linea("Inversores", c)[1] = ent[1]

\* A kit with a bank of several strings whose capacity is not a multiple of
\* the requirement, and several panels.
C2_Testigo ==
    /\ Devuelto
    /\ \E c \in Categorias :
          /\ elegido[c]["Baterias"].idx # 0
          /\ elegido[c]["Baterias"].cantidad >= 2
          /\ c = "Premium"
    /\ \E c \in Categorias :
          /\ elegido[c]["Paneles"].idx # 0
          /\ elegido[c]["Paneles"].cantidad >= 2

\* Inverter entries of tier c whose capacity is >= peak demand
InversoresElegibles(c) ==
    {i \in 1..Len(Lista("Inversores", c)) : Lista("Inversores", c)[i][2] >= demanda_maxima}

\* C3: the Inversores line item is the lowest-priced entry among those with
\* capacity >= peak demand, never an entry below it, and the sentinel when
\* every inverter of the tier is below peak demand.
C3_InversorMinimo ==
    Devuelto =>
        \A c \in Categorias :
            LET el == InversoresElegibles(c)
                lista == Lista("Inversores", c)
                linea == Linea("Inversores", c)
            IN  IF el = {} THEN linea = <<SinDatos, 0>>
                ELSE /\ linea[2] = Minimo({lista[i][3] : i \in el})
                     /\ \E i \in el : lista[i][1] = linea[1] /\ lista[i][3] = linea[2]

\* A tier where a cheaper inverter below peak demand is passed over for a
\* sufficient one.
C3_Testigo ==
    /\ Devuelto
    /\ \E c \in Categorias :
          /\ InversoresElegibles(c) # {}
          /\ \E i \in 1..Len(Lista("Inversores", c)) :
                /\ i \notin InversoresElegibles(c)
                /\ Lista("Inversores", c)[i][3] < Linea("Inversores", c)[2]

\* C4: whenever a battery entry is selected its voltage evenly divides the
\* system voltage and the series count of the description satisfies
\* series * entryVoltage = systemVoltage; no other battery line is non-sentinel.
C4_Topologia ==
    Devuelto =>
        \A c \in Categorias :
            LET e == elegido[c]["Baterias"]
                linea == Linea("Baterias", c)
            IN  /\ e.idx = 0 => linea = <<SinDatos, 0>>
                /\ e.idx # 0 =>
                     LET ent == Lista("Baterias", c)[e.idx]
                     IN  /\ ent[3] > 0
                         /\ VoltajeEsperado % ent[3] = 0
                         /\ e.serie * ent[3] = VoltajeEsperado
                         /\ linea[1] = DescBateria(e.serie * e.cantidad, ent[1],
                                                   e.serie, e.cantidad)

\* A battery is selected in a tier that also lists a battery with capacity
\* whose voltage does not divide the system voltage.
C4_Testigo ==
    /\ Devuelto
    /\ \E c \in Categorias :
          /\ elegido[c]["Baterias"].idx # 0
          /\ \E j \in 1..Len(Lista("Baterias", c)) :
                /\ Lista("Baterias", c)[j][2] > 0
                /\ Lista("Baterias", c)[j][3] > 0
                /\ VoltajeEsperado % Lista("Baterias", c)[j][3] # 0

\* Battery entries of tier c with capacity > 0 whose voltage divides the
\* system voltage
BateriasElegibles(c) ==
    {i \in 1..Len(Lista("Baterias", c)) :
        /\ Lista("Baterias", c)[i][2] > 0
        /\ Lista("Baterias", c)[i][3] > 0
        /\ VoltajeEsperado % Lista("Baterias", c)[i][3] = 0}

SerieEsperada(c, i) == VoltajeEsperado \div Lista("Baterias", c)[i][3]

\* ceil(requiredAh / capacity), requiredAh = batteryAh * 12 / systemVoltage / DoD
ParaleloEsperado(c, i) ==
    CeilDiv(capacidad_bateria * 12 * DodEsperado(c)[2],
            VoltajeEsperado * DodEsperado(c)[1] * Lista("Baterias", c)[i][2])

CostoBateria(c, i) ==
    SerieEsperada(c, i) * ParaleloEsperado(c, i) * Lista("Baterias", c)[i][4]

\* C5: with the system voltage 12 / 24 / 48 by panelWatts and DoD 0.5 / 0.9
\* by tier, the Baterias line item of a tier with an eligible entry is priced
\* at the minimum of series * parallel * price, and its description states
\* series * parallel units of an entry of that cost as '<series>S<parallel>P'.
C5_BancoMinimo ==
    Devuelto =>
        \A c \in Categorias :
            LET el == BateriasElegibles(c)
                linea == Linea("Baterias", c)
            IN  el # {} =>
                  /\ linea[2] = Minimo({CostoBateria(c, i) : i \in el})
                  /\ \E i \in el :
                        /\ CostoBateria(c, i) = linea[2]
                        /\ linea[1]
                             = DescBateria(SerieEsperada(c, i) * ParaleloEsperado(c, i),
                                           Lista("Baterias", c)[i][1],
                                           SerieEsperada(c, i), ParaleloEsperado(c, i))

\* A bank of strings in series above 12 V, in a tier with two eligible
\* entries of different cost.
C5_Testigo ==
    /\ Devuelto
    /\ VoltajeEsperado > 12
    /\ capacidad_bateria > 0
    /\ \E c \in Categorias : \E i, j \in BateriasElegibles(c) :
          /\ CostoBateria(c, i) # CostoBateria(c, j)
          /\ SerieEsperada(c, i) >= 2

\* The scenario of the specification: 100 Ah required, Economy batteries
\* B1 (40 Ah, $40) and B2 (60 Ah, $55), both at the 12 V reference.
EscenarioBaterias ==
    /\ Devuelto
    /\ capacidad_bateria = 100
    /\ Lista("Baterias", "Barato") = <<<<B1, 40, 12, 40>>, <<B2, 60, 12, 55>>>>

Elegibles(h, c) ==
    CASE h = "Paneles" -> PanelesElegibles(c)
      [] h = "Baterias" -> BateriasElegibles(c)
      [] h = "Inversores" -> InversoresElegibles(c)
      [] h = "Controladores" -> 1..Len(Lista("Controladores", c))

\* C7: a family with no eligible entry in a tier yields ("Sin datos", 0); a
\* family with an eligible entry yields a description other than "Sin datos".
C7_Centinela ==
    Devuelto =>
        \A c \in Categorias, h \in Hojas :
            /\ Elegibles(h, c) = {} => Linea(h, c) = <<SinDatos, 0>>
            /\ Elegibles(h, c) # {} => Linea(h, c)[1] # SinDatos

\* C8: every call returns, without raising, a kit with a line item for each
\* of the four families in each of the three tiers.
C8_Total ==
    pc = "calculado" =>
        /\ excepcion = "ninguna"
        /\ DOMAIN resultados = Categorias
        /\ \A c \in Categorias : DOMAIN resultados[c] = Hojas

SoloCategoria(d, c) ==
    [h \in Hojas |-> [k \in Categorias |-> IF k = c THEN d[h][k] ELSE <<>>]]

\* What a call gives for tier c: its kit, or nothing when the call raises
ParaCategoria(r, c) == IF r.excepcion = "ninguna" THEN r.resultados[c] ELSE Nada

\* C10: the kit of a tier is that of the same call on any catalog that agrees
\* on the tier, here the one with the other tiers emptied.
C10_Independiente ==
    pc = "calculado" =>
        \A c \in Categorias :
            ParaCategoria([excepcion |-> excepcion, resultados |-> resultados], c)
              = ParaCategoria(CalcularKit(SoloCategoria(datos, c), potencia_panel,
                                          capacidad_bateria, demanda_maxima), c)

\* The same, for the calls that return
C10_IndependienteSiDevuelve ==
    Devuelto =>
        \A c \in Categorias :
            resultados[c]
              = ParaCategoria(CalcularKit(SoloCategoria(datos, c), potencia_panel,
                                          capacidad_bateria, demanda_maxima), c)

----------------------------------------------------------------------------
(* Properties of the load aggregation, sizing and amortization *)

\* Sum of f over the finite set S of its domain
RECURSIVE Suma(_, _)
Suma(f, S) ==
    IF S = {} THEN 0
    ELSE LET x == CHOOSE y \in S : TRUE IN f[x] + Suma(f, S \ {x})

\* Hours of a load, 0 for hours it does not state
Horas(c, k) == IF k \in DOMAIN c THEN c[k] ELSE 0

\* Sum over the loads of quantity * power * hours k
ConsumoEn(lista, k) ==
    Suma([i \in 1..Len(lista) |->
             lista[i]["cantidad"] * lista[i]["carga"] * Horas(lista[i], k)],
         1..Len(lista))

\* Sum over the loads of quantity * power * (day hours + night hours)
ConsumoTotal(lista) ==
    Suma([i \in 1..Len(lista) |->
             lista[i]["cantidad"] * lista[i]["carga"]
                * (Horas(lista[i], "horas_dia") + Horas(lista[i], "horas_noche"))],
         1..Len(lista))

\* The list without its i-th load
SinCarga(lista, i) == SubSeq(lista, 1, i - 1) \o SubSeq(lista, i + 1, Len(lista))

\* C11: the day energy plus the night energy returned by energia_dia_noche is
\* the sum over the loads of quantity * power * (day hours + night hours), the
\* day and the night energy being quantity * power times the day and the night
\* hours; a load with quantity 0 contributes 0 to both.
C11_EnergiaTotal ==
    energia # Nada =>
        /\ energia[1] + energia[2] = ConsumoTotal(cargas)
        /\ energia[1] = ConsumoEn(cargas, "horas_dia")
        /\ energia[2] = ConsumoEn(cargas, "horas_noche")
        /\ \A i \in 1..Len(cargas) :
              cargas[i]["cantidad"] = 0 =>
                  EnergiaDiaNoche(SinCarga(cargas, i), curva).energia = energia

\* The energies of a list of a load in use by day and by night and a load
\* with quantity 0.
C11_Testigo ==
    /\ energia # Nada
    /\ energia[1] > 0
    /\ energia[2] > 0
    /\ \E i, j \in 1..Len(cargas) :
          /\ cargas[i]["cantidad"] = 0
          /\ cargas[i]["carga"] > 0
          /\ cargas[j]["cantidad"] > 1

\* a <= b and a = b for fractions of positive denominator
FracLeq(a, b) == a[1] * b[2] <= b[1] * a[2]

FracIgual(a, b) == a[1] * b[2] = b[1] * a[2]

\* Sun-hours over which the panel power is compared
HorasSol == 1..8

\* C12: the panel power returned by calcular_necesidades is (energyDay +
\* energyNight) / sunHours, sunHours being the effective sun-hours; the
\* formula gives 0 for sunHours 0, total / sunHours for sunHours > 0 where it
\* does not increase with sunHours; the panel power does not decrease with
\* the total energy of the load list; the battery capacity is energyNight / 12.
C12_Necesidades ==
    necesidades # Nada =>
        LET ed == ConsumoEn(cargas, "horas_dia")
            en == ConsumoEn(cargas, "horas_noche")
        IN  /\ FracIgual(necesidades[1], <<ed + en, HorasSolaresEfectivas(curva)>>)
            /\ FracIgual(PotenciaPanelCon(ed, en, 0), <<0, 1>>)
            /\ \A h \in HorasSol : FracIgual(PotenciaPanelCon(ed, en, h), <<ed + en, h>>)
            /\ \A h1, h2 \in HorasSol :
                  h1 <= h2 => FracLeq(PotenciaPanelCon(ed, en, h2),
                                      PotenciaPanelCon(ed, en, h1))
            /\ \A l \in ListasCargas :
                  ConsumoTotal(l) >= ed + en =>
                      FracLeq(necesidades[1], CalcularNecesidades(l, curva).necesidades[1])
            /\ FracIgual(necesidades[2], <<en, 12>>)

\* Needs of a list with night use whose panel power is not a whole number
\* of watts.
C12_Testigo ==
    /\ necesidades # Nada
    /\ necesidades[1][1] % necesidades[1][2] # 0
    /\ necesidades[2][1] > 0
    /\ ConsumoEn(cargas, "horas_dia") > 0

RECURSIVE MCD(_, _)
MCD(a, b) == IF b = 0 THEN a ELSE MCD(b, a % b)

\* A fraction in lowest terms
Reducida(a) == <<a[1] \div MCD(a[1], a[2]), a[2] \div MCD(a[1], a[2])>>

\* C13: calcular_amortizacion does not raise; the system cost is the sum of
\* the prices of the kit's line items; payback = systemCost / annualGridCost
\* when annualGridCost = dailyKwh * 0.83 * 365 is > 0, payback is +infinity
\* when it is 0; the cost per kWh is +infinity when dailyKwh is 0.
C13_Amortizacion ==
    amortizacion # Nada =>
        LET pres == amortizacion.presupuesto
            daily == amortizacion.daily_kwh
            costo == Suma([h \in Hojas |-> pres[h][2]], Hojas)
            anual == <<daily[1] * 83 * 365, daily[2] * 100>>
            v == amortizacion.valor
        IN  /\ excepcion = "ninguna"
            /\ v # Nada
            /\ v.costo_sistema = costo
            /\ anual[1] > 0 =>
                  /\ ~v.payback.inf
                  /\ Reducida(v.payback.v) = Reducida(<<costo * anual[2], anual[1]>>)
            /\ anual[1] = 0 => v.payback = Inf
            /\ daily[1] = 0 => v.costo_kwh = Inf

\* The amortization of a kit that costs something for loads that use no
\* energy.
C13_Testigo ==
    /\ amortizacion # Nada
    /\ amortizacion.daily_kwh[1] = 0
    /\ amortizacion.valor # Nada
    /\ amortizacion.valor.costo_sistema > 0
    /\ amortizacion.valor.payback.inf
    /\ amortizacion.valor.costo_kwh.inf

\* The amortization of a kit for loads that use energy: a finite payback.
C13_TestigoFinito ==
    /\ amortizacion # Nada
    /\ amortizacion.daily_kwh[1] > 0
    /\ amortizacion.valor # Nada
    /\ amortizacion.valor.costo_sistema > 0
    /\ ~amortizacion.valor.payback.inf

\* C15: no call of energia_dia_noche, calcular_necesidades,
\* potencia_maxima_demanda, calcular_kit or calcular_amortizacion changes the
\* catalog, the load list or the irradiance curve, and a kit returned before
\* the call is the same after it: the one the caller holds, or held until the
\* call returned a new one.
C15_SinMutacion ==
    [][ /\ datos' = datos
        /\ cargas' = cargas
        /\ curva' = curva
        /\ resultados # Nada =>
              \/ resultados' = resultados
              \/ anterior'.hay /\ anterior'.resultados = resultados ]_vars

\* Every function has been called, calcular_kit twice, on a list with a load
\* that does not state its night hours.
C15_Testigo ==
    /\ energia # Nada
    /\ necesidades # Nada
    /\ demanda # Nada
    /\ amortizacion # Nada
    /\ resultados # Nada
    /\ anterior.hay
    /\ anterior.resultados # resultados
    /\ \E i \in 1..Len(cargas) : "horas_noche" \notin DOMAIN cargas[i]

\* The loads of a list with the hours of every load replaced
ConHoras(lista, hd, hn) ==
    [i \in 1..Len(lista) |->
        Carga(lista[i]["aparato"], lista[i]["cantidad"], lista[i]["carga"], hd, hn)]

\* C17: the peak demand returned by potencia_maxima_demanda is the sum over
\* all loads of quantity * power, whatever the day and night hours of the
\* loads, and is >= the summed power of any subset of the loads.
C17_DemandaMaxima ==
    demanda # Nada =>
        LET pot == [i \in 1..Len(cargas) |-> cargas[i]["cantidad"] * cargas[i]["carga"]]
        IN  /\ demanda[1] = Suma(pot, 1..Len(cargas))
            /\ \A S \in SUBSET (1..Len(cargas)) : Suma(pot, S) <= demanda[1]
            /\ \A hd, hn \in {0, 3} :
                  PotenciaMaximaDemanda(ConHoras(cargas, hd, hn)) = demanda[1]

\* The peak demand of two loads with power, used for different hours.
C17_Testigo ==
    /\ demanda # Nada
    /\ Len(cargas) = 2
    /\ cargas[1]["cantidad"] * cargas[1]["carga"] > 0
    /\ cargas[2]["cantidad"] * cargas[2]["carga"] > 0
    /\ Horas(cargas[1], "horas_dia") # Horas(cargas[2], "horas_dia")
    /\ demanda[1] > cargas[1]["cantidad"] * cargas[1]["carga"]

----------------------------------------------------------------------------
(* Ties *)

\* What the selection minimizes for entry i of family h in tier c
Costo(h, c, i) ==
    CASE h = "Paneles" -> CostoPanel(c, i)
      [] h = "Baterias" -> CostoBateria(c, i)
      [] h \in {"Inversores", "Controladores"} -> Lista(h, c)[i][3]

\* The description of the line item that selects entry i
Descripcion(h, c, i) ==
    CASE h = "Paneles" ->
            DescPanel(CeilDiv(potencia_panel, Lista(h, c)[i][2]), Lista(h, c)[i][1])
      [] h = "Baterias" ->
            DescBateria(SerieEsperada(c, i) * ParaleloEsperado(c, i), Lista(h, c)[i][1],
                        SerieEsperada(c, i), ParaleloEsperado(c, i))
      [] h \in {"Inversores", "Controladores"} -> Lista(h, c)[i][1]

\* The first, in input order, of the eligible entries of minimal cost
PrimeroMinimo(h, c) ==
    LET m == Minimo({Costo(h, c, i) : i \in Elegibles(h, c)})
    IN  Minimo({i \in Elegibles(h, c) : Costo(h, c, i) = m})

\* C14: among the eligible entries of a family in a tier that have the same
\* minimal total, calcular_kit selects the one that comes first in the tier's
\* input order, for panels, batteries, inverters and controllers alike.
C14_PrimerMinimo ==
    Devuelto =>
        \A c \in Categorias, h \in Hojas :
            Elegibles(h, c) # {} =>
                /\ elegido[c][h].idx = PrimeroMinimo(h, c)
                /\ Linea(h, c) = <<Descripcion(h, c, PrimeroMinimo(h, c)),
                                   Costo(h, c, PrimeroMinimo(h, c))>>

\* Two panels of different names tie at a minimal total above 0 and the one
\* listed first is in the kit.
C14_Testigo ==
    /\ Devuelto
    /\ \E c \in Categorias : \E i, j \in PanelesElegibles(c) :
          /\ i < j
          /\ CostoPanel(c, i) = CostoPanel(c, j)
          /\ CostoPanel(c, i) > 0
          /\ Lista("Paneles", c)[i][1] # Lista("Paneles", c)[j][1]
          /\ Linea("Paneles", c)[1] = Descripcion("Paneles", c, i)
          /\ Linea("Paneles", c)[1] # Descripcion("Paneles", c, j)

----------------------------------------------------------------------------
(* Properties of the stock movements *)

\* The stock of a product of a category, 0 when the inventory does not list it
StockDe(inv, categoria, producto) ==
    IF categoria \in DOMAIN inv /\ producto \in DOMAIN inv[categoria]
    THEN inv[categoria][producto]
    ELSE 0

\* Every <<categoria, producto>> an inventory lists
Listados(inv) == {<<c, p>> : c \in DOMAIN inv, p \in UNION {DOMAIN inv[k] : k \in DOMAIN inv}}

\* C19: after any sequence of calls of ingresar_stock and egresar_stock,
\* successful or failing, the stock of every product is >= 0 and is its
\* initial stock plus the quantities of the successful ingresar_stock calls
\* minus those of the successful egresar_stock calls for it.
C19_Existencias ==
    pc = "inventario" =>
        /\ \A c \in DOMAIN inventario : \A p \in DOMAIN inventario[c] :
              inventario[c][p] >= 0
        /\ \A k \in Listados(inventario) \cup Listados(historia.inicial)
                    \cup (CategoriasMovidas \X ProductosMovidos) :
              StockDe(inventario, k[1], k[2])
                = StockDe(historia.inicial, k[1], k[2])
                  + (IF k \in DOMAIN historia.ingresos THEN historia.ingresos[k] ELSE 0)
                  - (IF k \in DOMAIN historia.egresos THEN historia.egresos[k] ELSE 0)

\* A product that was put in and taken out, after a call that failed.
C19_Testigo ==
    /\ pc = "inventario"
    /\ excepcion = "ValueError"
    /\ \E k \in CategoriasMovidas \X ProductosMovidos :
          /\ historia.ingresos[k] > 0
          /\ historia.egresos[k] > 0
          /\ StockDe(historia.inicial, k[1], k[2]) > 0

\* C20: a call of ingresar_stock or egresar_stock that fails leaves the whole
\* inventory as it was: no stock changed, no category or product added.
C20_FalloSinCambio ==
    (pc = "inventario" /\ excepcion = "ValueError") => inventario = historia.previo

\* The same for the stocks alone: a call that fails changes no stock
C20_FalloSinCambioDeStock ==
    (pc = "inventario" /\ excepcion = "ValueError") =>
        \A k \in Listados(inventario) \cup Listados(historia.previo) :
            StockDe(inventario, k[1], k[2]) = StockDe(historia.previo, k[1], k[2])

----------------------------------------------------------------------------
(* Properties of the sales *)

\* The stock of a product, 0 when the inventory does not list it
Stock(inv, producto) == IF producto \in DOMAIN inv THEN inv[producto] ELSE 0

\* The line items of a kit: <<name, qty>> parsed from each description
Items(pres) == [i \in 1..Len(OrdenFamilias) |-> ParseItem(pres[OrdenFamilias[i]][1])]

\* The quantity the line items of a kit ask of a product
Pedido(pres, producto) ==
    Suma([i \in 1..Len(OrdenFamilias) |->
             IF Items(pres)[i][1] = producto THEN Items(pres)[i][2] ELSE 0],
         1..Len(OrdenFamilias))

\* The last sale was of a kit and found the stock of every line item
VentaHecha ==
    /\ pc = "venta"
    /\ historia.pres # Nada
    /\ \A i \in 1..Len(OrdenFamilias) :
          Stock(historia.previo, Items(historia.pres)[i][1]) >= Items(historia.pres)[i][2]

\* C16: a sale of a tier's kit is all or nothing.  If the stock of the
\* product parsed from the description of any line item is below the parsed
\* quantity, or no simulation has produced a kit, the inventory is as before
\* and no movement is recorded; otherwise every line item takes exactly its
\* parsed quantity from the stock of its product (a product is left with its
\* stock minus the quantities of the line items that name it), the inventory
\* is saved and one movement is recorded.
C16_TodoONada ==
    pc = "venta" =>
        /\ archivo = inventario
        /\ ~VentaHecha =>
              /\ inventario = historia.previo
              /\ Len(movimientos) = historia.registrados
        /\ VentaHecha =>
              /\ \A p \in DOMAIN inventario \cup DOMAIN historia.previo :
                    Stock(inventario, p)
                      = Stock(historia.previo, p) - Pedido(historia.pres, p)
              /\ \A i \in 1..Len(OrdenFamilias) :
                    Items(historia.pres)[i][1] \in DOMAIN inventario
              /\ Len(movimientos) = historia.registrados + 1

\* A sale that took the five batteries of a bank in one string from the
\* stock, after a sale that was refused.
C16_Testigo ==
    /\ VentaHecha
    /\ historia.pres["Baterias"][1] = DescBateria(5, B1, 1, 5)
    /\ Stock(inventario, B1) = Stock(historia.previo, B1) - 5
    /\ Len(movimientos) = 1
    /\ historia.ventas = 2

\* A sale refused for lack of stock of a line item.
C16_TestigoRechazo ==
    /\ pc = "venta"
    /\ historia.pres # Nada
    /\ ~VentaHecha
    /\ \E p \in DOMAIN inventario : inventario[p] > 0

\* C18: after any sequence of sales of kits the optimizer produced, from an
\* inventory with every stock >= 0, every stock is >= 0, also when two line
\* items of a kit name the same product.
C18_StockNoNegativo ==
    \A p \in DOMAIN inventario : inventario[p] >= 0

----------------------------------------------------------------------------
(* The inventory dialog *)

\* The row's quantity is one guardar refuses: float() raises, or it is < 0
Invalida(fila) ==
    LET cantidad == Float(Text(fila[2]))
    IN  cantidad.error \/ Negativa(cantidad.valor)

\* The quantity of a product in the dict, Nada when it is no key
Existencia(dict, producto) ==
    IF \E i \in DOMAIN dict : dict[i][1] = producto
    THEN dict[CHOOSE i \in DOMAIN dict : dict[i][1] = producto][2]
    ELSE Nada

\* The last row of the table that names the product
UltimaFila(filas, producto) ==
    CHOOSE r \in DOMAIN filas :
        /\ Text(filas[r][1]) = producto
        /\ \A q \in DOMAIN filas : Text(filas[q][1]) = producto => q <= r

\* Every row of the table is in the inventory with the quantity typed
TodasActualizadas ==
    \A r \in DOMAIN table :
        Existencia(inventario, Text(table[r][1]))
          = Float(Text(table[UltimaFila(table, Text(table[r][1]))][2])).valor

\* A number without what == does not see: 10 == 10.0 and 0.0 == -0.0
Comparable(v) ==
    IF v.clase = "finito"
    THEN Flotante(IF v.n = 0 THEN 1 ELSE v.signo, v.n, v.k)
    ELSE v

\* The dicts hold the same keys in the same order with quantities that are ==
MismoInventario(a, b) ==
    /\ Len(a) = Len(b)
    /\ \A i \in DOMAIN a : a[i][1] = b[i][1] /\ Comparable(a[i][2]) = Comparable(b[i][2])

\* The outcome of a click of "Guardar cambios" is on screen
TrasGuardar == pc \in {"guardado", "rechazado"}

\* C21: guardar is all-or-nothing.  After a click on a table with a row
\* whose quantity is invalid, neither the inventory in memory nor the one
\* last saved to the file has changed; after a click on a table whose rows
\* are all valid, every row is in the inventory and the inventory is saved.
C21_TodoONada ==
    TrasGuardar =>
        IF \E r \in DOMAIN table : Invalida(table[r])
        THEN /\ MismoInventario(inventario, historia.previo)
             /\ MismoInventario(archivo, historia.archivo)
        ELSE TodasActualizadas /\ archivo = inventario

\* The part of C21 on the file: a click on a table with an invalid row makes
\* no call of guardar_inventario, and a warning names the first such row.
C21_ArchivoIntacto ==
    TrasGuardar /\ (\E r \in DOMAIN table : Invalida(table[r])) =>
        /\ pc = "rechazado"
        /\ archivo = historia.archivo
        /\ \E r \in DOMAIN table :
              /\ Invalida(table[r])
              /\ \A q \in 1..(r - 1) : ~Invalida(table[q])
              /\ historia.aviso = Text(table[r][1])

\* The part of C21 on valid tables: every row is updated and the inventory
\* is saved.
C21_TodasValidas ==
    TrasGuardar /\ (\A r \in DOMAIN table : ~Invalida(table[r])) =>
        /\ pc = "guardado"
        /\ TodasActualizadas
        /\ archivo = inventario

\* The rows above the first invalid one are in the inventory in memory after
\* the warning, and only they have changed.
C21_ActualizacionParcial ==
    pc = "rechazado" =>
        \E r \in DOMAIN table :
            /\ Invalida(table[r])
            /\ inventario = BucleGuardar(SubSeq(table, 1, r - 1), historia.previo, 1).inventario

\* A click refused for its second row, "-1", after the first row, "5", was
\* written to the inventory in memory: memory and file differ.
C21_MemoriaCambiada ==
    /\ pc = "rechazado"
    /\ Text(table[1][2]) = <<"5">>
    /\ Text(table[2][2]) = <<"-", "1">>
    /\ historia.previo = <<<<P1, EnteroPy(10)>>, <<B1, EnteroPy(4)>>>>
    /\ inventario = <<<<P1, Flotante(1, 5, 0)>>, <<B1, EnteroPy(4)>>>>
    /\ archivo = historia.previo
    /\ ~MismoInventario(inventario, archivo)

\* A click that saved every row, one of them typed with spaces and a point.
C21_TodoGuardado ==
    /\ pc = "guardado"
    /\ Text(table[1][2]) = <<" ", "2", ".", "5">>
    /\ Existencia(inventario, P1) = Flotante(1, 25, 1)
    /\ archivo = inventario
    /\ inventario # historia.previo

====
